---- MODULE Spec2Model ----
(***************************************************************************)
(* A model of chgk-google-sheets: the bolt-backed store (store.go), the    *)
(* commands that use it (app.go) and the spreadsheet layout arithmetic     *)
(* (app.go).                                                               *)
(*                                                                         *)
(* The bolt file is the variable db: a function from the names of the      *)
(* buckets that exist to the bucket's content, a function from keys to     *)
(* values.  A value is a JSON text, modelled by its parse tree.            *)
(***************************************************************************)
EXTENDS Integers, Sequences, FiniteSets, TLC

VARIABLES
    config,   \* the Config of the running process (config.go)
    db,       \* the committed content of the bolt file
    saved,    \* history: the rounds for which saveRoundResults has succeeded
    latest,   \* history: the registry the successful saveSpreadsheets calls add up to
    last,     \* the last operation: its name, arguments, error and result
    prev,     \* the operation before the last one, where a claim needs it
    procs     \* the command in progress in each process that has the store file

vars == <<config, db, saved, latest, last, prev, procs>>

(***************************************************************************)
(* Errors.  An error has a dynamic type (store.go tests for                *)
(* *errorInexistantBucket) and a message (CmdGetTotal compares messages).  *)
(***************************************************************************)
Err(type, msg) == [type |-> type, msg |-> msg]
NoErr == Err("nil", "")
ErrKeyRequired == Err("bolt", "key required")
ErrUnexpectedEndOfJSON == Err("json", "unexpected end of JSON input")
errorInexistantBucket(bucket) ==
    Err("errorInexistantBucket", "bucket " \o bucket \o " does not exist")

(***************************************************************************)
(* strconv.Itoa and the %d verb: the decimal digits of an integer.         *)
(***************************************************************************)
DigitChars == <<"0", "1", "2", "3", "4", "5", "6", "7", "8", "9">>

RECURSIVE NatToString(_)
NatToString(n) ==
    IF n < 10 THEN DigitChars[n + 1]
    ELSE NatToString(n \div 10) \o DigitChars[(n % 10) + 1]

Itoa(n) == IF n < 0 THEN "-" \o NatToString(0 - n) ELSE NatToString(n)

(***************************************************************************)
(* Buckets and keys.                                                       *)
(***************************************************************************)
bucketGameConfiguration == "game-configuration"
bucketTeamsSpreadsheets == "teams-spreadsheets"
bucketGameResults == "game-results"
bucketGameConfiguration_managerSpreadsheet == "manager-spreadsheet"

EmptyBucket == << >>
EmptyDB == << >>

(***************************************************************************)
(* *storeSpreadsheet: a nil pointer or a pointer to {ID, URL}.             *)
(***************************************************************************)
NilSheet == [isNil |-> TRUE, ID |-> "", URL |-> ""]
Sheet(id, url) == [isNil |-> FALSE, ID |-> id, URL |-> url]
ZeroSheet == Sheet("", "")

(***************************************************************************)
(* encoding/json on storeSpreadsheet.  Marshal of a nil pointer is the     *)
(* text null.  Unmarshal of no bytes at all is an error; Unmarshal of null *)
(* into a pointer sets it to nil, and into a struct leaves the struct as   *)
(* it was (here: the zero value).                                          *)
(***************************************************************************)
NoBytes == [j |-> "empty", ID |-> "", URL |-> ""]
JNull == [j |-> "null", ID |-> "", URL |-> ""]
JSheet(id, url) == [j |-> "object", ID |-> id, URL |-> url]

\* a Marshal that loses the URL field
MarshalSheetDropURL(s) == IF s.isNil THEN JNull ELSE JSheet(s.ID, "")

MarshalSheet(s) == IF s.isNil THEN JNull ELSE JSheet(s.ID, s.URL)

\* an Unmarshal that takes no bytes at all for null
UnmarshalSheetPtrLenient(bytes) ==
    IF bytes.j \in {"empty", "null"} THEN [err |-> NoErr, val |-> NilSheet]
    ELSE [err |-> NoErr, val |-> Sheet(bytes.ID, bytes.URL)]

\* json.Unmarshal(bytes, &ptr) with ptr a *storeSpreadsheet (store.go:118)
UnmarshalSheetPtr(bytes) ==
    CASE bytes.j = "empty" -> [err |-> ErrUnexpectedEndOfJSON, val |-> NilSheet]
      [] bytes.j = "null" -> [err |-> NoErr, val |-> NilSheet]
      [] OTHER -> [err |-> NoErr, val |-> Sheet(bytes.ID, bytes.URL)]

\* json.Unmarshal(bytes, &s) with s a storeSpreadsheet (store.go:131)
UnmarshalSheet(bytes) ==
    CASE bytes.j = "empty" -> [err |-> ErrUnexpectedEndOfJSON, val |-> ZeroSheet]
      [] bytes.j = "null" -> [err |-> NoErr, val |-> ZeroSheet]
      [] OTHER -> [err |-> NoErr, val |-> Sheet(bytes.ID, bytes.URL)]

(***************************************************************************)
(* storeGameSpreadsheets.  A nil map and an empty map are both the         *)
(* function with the empty domain: the code only takes len and ranges.     *)
(***************************************************************************)
NoTeams == << >>
Registry(manager, teams) == [isNil |-> FALSE, manager |-> manager, teams |-> teams]
NilRegistry == [isNil |-> TRUE, manager |-> NilSheet, teams |-> NoTeams]

(***************************************************************************)
(* bolt transactions.  A transaction works on a copy tx of the file        *)
(* content; db.Update commits the copy when the function returns nil and   *)
(* rolls it back otherwise; db.View never writes.                          *)
(***************************************************************************)
\* a createBuckets that leaves out the results bucket
createBucketsWithoutResults(tx) ==
    [b \in DOMAIN tx \cup {bucketGameConfiguration, bucketTeamsSpreadsheets} |->
        IF b \in DOMAIN tx THEN tx[b] ELSE EmptyBucket]

\* tx.CreateBucketIfNotExists for each of the three buckets
createBuckets(tx) ==
    [b \in DOMAIN tx \cup {bucketGameConfiguration, bucketTeamsSpreadsheets,
                           bucketGameResults} |->
        IF b \in DOMAIN tx THEN tx[b] ELSE EmptyBucket]

getBucket(tx, buckName) ==
    IF buckName \in DOMAIN tx THEN NoErr ELSE errorInexistantBucket(buckName)

\* Bucket.Get: the value, or no bytes when the key is absent
Get(tx, buckName, key) ==
    IF key \in DOMAIN tx[buckName] THEN tx[buckName][key] ELSE NoBytes

\* a Put that replaces the bucket's content by the one pair
PutReplacing(tx, buckName, key, value) ==
    IF key = "" THEN [tx |-> tx, err |-> ErrKeyRequired]
    ELSE [tx |-> [tx EXCEPT ![buckName] = [k \in {key} |-> value]], err |-> NoErr]

\* Bucket.Put: an empty key is refused
Put(tx, buckName, key, value) ==
    IF key = "" THEN [tx |-> tx, err |-> ErrKeyRequired]
    ELSE [tx |-> [tx EXCEPT ![buckName] =
                     [k \in DOMAIN tx[buckName] \cup {key} |->
                         IF k = key THEN value ELSE tx[buckName][k]]],
          err |-> NoErr]

\* an Update that keeps the writes of a failed function
CommitOnError(store, r) == r.tx

\* db.Update's end: commit on nil, roll back on error (store.go:243-255)
Commit(store, r) == IF r.err = NoErr THEN r.tx ELSE store

(***************************************************************************)
(* saveSpreadsheets.  order is the order in which Go ranges over the team  *)
(* map, which the language leaves open.                                    *)
(***************************************************************************)
RECURSIVE putTeams(_, _, _)
putTeams(tx, teams, order) ==
    IF order = << >> THEN [tx |-> tx, err |-> NoErr]
    ELSE LET name == Head(order)
             p == Put(tx, bucketTeamsSpreadsheets, name, MarshalSheet(teams[name]))
         IN  IF p.err # NoErr THEN p ELSE putTeams(p.tx, teams, Tail(order))

\* the function saveSpreadsheets hands to update (store.go:74-103)
saveSpreadsheetsFn(tx, req, order) ==
    IF getBucket(tx, bucketGameConfiguration) # NoErr
    THEN [tx |-> tx, err |-> getBucket(tx, bucketGameConfiguration)]
    ELSE LET p == Put(tx, bucketGameConfiguration,
                      bucketGameConfiguration_managerSpreadsheet,
                      MarshalSheet(req.manager))
         IN  IF p.err # NoErr THEN p
             ELSE IF Cardinality(DOMAIN req.teams) = 0 THEN p
             ELSE IF getBucket(p.tx, bucketTeamsSpreadsheets) # NoErr
             THEN [tx |-> p.tx, err |-> getBucket(p.tx, bucketTeamsSpreadsheets)]
             ELSE putTeams(p.tx, req.teams, order)

\* update(fn): create the buckets, run fn, commit or roll back
saveSpreadsheets(store, req, order) ==
    LET r == saveSpreadsheetsFn(createBuckets(store), req, order)
    IN  [db |-> Commit(store, r), err |-> r.err, tx |-> r.tx]

(***************************************************************************)
(* getSpreadsheets (store.go:110-146), inside a read-only transaction.     *)
(***************************************************************************)
getSpreadsheets(store) ==
    IF getBucket(store, bucketGameConfiguration) # NoErr
    THEN [err |-> getBucket(store, bucketGameConfiguration), val |-> NilRegistry]
    ELSE LET m == UnmarshalSheetPtr(Get(store, bucketGameConfiguration,
                                        bucketGameConfiguration_managerSpreadsheet))
         IN  IF m.err # NoErr THEN [err |-> m.err, val |-> NilRegistry]
             ELSE IF getBucket(store, bucketTeamsSpreadsheets) # NoErr
             THEN [err |-> NoErr, val |-> Registry(m.val, NoTeams)]
             ELSE LET b == store[bucketTeamsSpreadsheets]
                      bad == {k \in DOMAIN b : UnmarshalSheet(b[k]).err # NoErr}
                  IN  IF bad # {}
                      THEN [err |-> ErrUnexpectedEndOfJSON, val |-> NilRegistry]
                      ELSE [err |-> NoErr,
                            val |-> Registry(m.val,
                                      [k \in DOMAIN b |-> UnmarshalSheet(b[k]).val])]

(***************************************************************************)
(* The store's registry interface, called with arbitrary requests.         *)
(***************************************************************************)
NoOp == [op |-> "none"]
\* no process is in the middle of a command
NoProcs == << >>

SheetPtrs == {NilSheet, Sheet("id1", "url1"), Sheet("id2", "url2")}

\* The requests tried: a nil or non-nil manager; team A with any reference,
\* team B with one, and the empty team name, a key bolt refuses.
TeamKeySets == {{}, {"A"}, {"B"}, {"A", "B"}, {"A", ""}}
TeamRefs(name) ==
    IF name = "A" THEN SheetPtrs
    ELSE IF name = "B" THEN {Sheet("id2", "url2")}
    ELSE {Sheet("id1", "url1")}
TeamMaps ==
    UNION {{t \in [S -> SheetPtrs] : \A n \in S : t[n] \in TeamRefs(n)} :
              S \in TeamKeySets}
Requests == {Registry(m, t) : m \in {NilSheet, Sheet("id1", "url1")}, t \in TeamMaps}

\* the orders in which a range over a map with key set S may go
Orders(S) ==
    {o \in [1..Cardinality(S) -> S] :
        \A i, j \in 1..Cardinality(S) : o[i] = o[j] => i = j}

DefaultConfig ==
    [NumberOfQuestions |-> 0, HasWarmUpQuestion |-> FALSE, Teams |-> << >>]

\* what the successful calls so far add up to, after one more with req
Merge(reg, req) ==
    Registry(req.manager,
             [n \in DOMAIN reg.teams \cup DOMAIN req.teams |->
                 IF n \in DOMAIN req.teams THEN req.teams[n] ELSE reg.teams[n]])

InitRegistry ==
    /\ config = DefaultConfig
    /\ db = EmptyDB
    /\ saved = {}
    /\ latest = NilRegistry
    /\ last = NoOp
    /\ prev = NoOp
    /\ procs = NoProcs

SaveSpreadsheets ==
    \E req \in Requests :
      \E order \in Orders(DOMAIN req.teams) :
        LET r == saveSpreadsheets(db, req, order)
        IN  /\ db' = r.db
            /\ latest' = IF r.err = NoErr THEN Merge(latest, req) ELSE latest
            /\ last' = [op |-> "saveSpreadsheets", req |-> req, err |-> r.err,
                        pre |-> db, tx |-> r.tx]
            /\ prev' = NoOp
            /\ UNCHANGED <<config, saved, procs>>

GetSpreadsheets ==
    LET r == getSpreadsheets(db)
    IN  /\ last' = [op |-> "getSpreadsheets", err |-> r.err, val |-> r.val]
        /\ prev' = IF last.op = "saveSpreadsheets" THEN last ELSE NoOp
        /\ UNCHANGED <<config, db, saved, latest, procs>>

NextRegistry == SaveSpreadsheets \/ GetSpreadsheets

SpecRegistry == InitRegistry /\ [][NextRegistry]_vars

(***************************************************************************)
(* Properties of the registry interface.                                   *)
(***************************************************************************)
StoredTeamNames(store) ==
    IF bucketTeamsSpreadsheets \in DOMAIN store
    THEN DOMAIN store[bucketTeamsSpreadsheets] ELSE {}

\* what getSpreadsheets makes of a stored or passed team reference
Deref(s) == IF s.isNil THEN ZeroSheet ELSE s

SaveThenGet ==
    /\ last.op = "getSpreadsheets"
    /\ prev.op = "saveSpreadsheets"
    /\ prev.err = NoErr
    /\ ~prev.req.manager.isNil

\* C1 as stated: from any reachable store state, a successful
\* saveSpreadsheets(r) with a non-null manager followed immediately by
\* getSpreadsheets returns a registry equal to r, whatever r's team map
\* (stated here for the team maps that hold no nil reference).
C1_RoundTripFromAnyState ==
    (SaveThenGet /\ \A n \in DOMAIN prev.req.teams : ~prev.req.teams[n].isNil)
        => (last.err = NoErr /\ last.val = prev.req)

\* C1 amended: the registry returned holds r's manager and the team map
\* stored before the call overridden by r's, a nil team reference coming
\* back as a zero reference; so it equals r when r's team references are
\* non-null and every team name stored before the call is a name of r.
C1_RoundTrip ==
    SaveThenGet =>
        /\ last.err = NoErr
        /\ last.val.manager = prev.req.manager
        /\ DOMAIN last.val.teams =
              StoredTeamNames(prev.pre) \cup DOMAIN prev.req.teams
        /\ \A n \in DOMAIN last.val.teams :
              last.val.teams[n] =
                  IF n \in DOMAIN prev.req.teams THEN Deref(prev.req.teams[n])
                  ELSE UnmarshalSheet(prev.pre[bucketTeamsSpreadsheets][n]).val
        /\ ( /\ StoredTeamNames(prev.pre) \subseteq DOMAIN prev.req.teams
             /\ \A n \in DOMAIN prev.req.teams : ~prev.req.teams[n].isNil )
           => last.val = prev.req

\* a round trip that returns the request: two teams saved over a store that
\* already held one of them
C1_Witness ==
    /\ SaveThenGet
    /\ DOMAIN prev.req.teams = {"A", "B"}
    /\ StoredTeamNames(prev.pre) = {"A"}
    /\ last.val = prev.req

StoredRegistryIs(store, reg) ==
    /\ bucketGameConfiguration \in DOMAIN store
    /\ Get(store, bucketGameConfiguration,
           bucketGameConfiguration_managerSpreadsheet) = MarshalSheet(reg.manager)
    /\ StoredTeamNames(store) = DOMAIN reg.teams
    /\ \A n \in DOMAIN reg.teams :
          store[bucketTeamsSpreadsheets][n] = MarshalSheet(reg.teams[n])

\* C9: after any sequence of successful saveSpreadsheets calls the stored
\* manager is the one of the last call (null when it passed nil) and each
\* stored team entry is the reference of the latest call that held that
\* name; a call leaves the entries of names absent from its map as they were
\* and adds none for them.
C9_MergeByKey ==
    /\ ~latest.isNil => StoredRegistryIs(db, latest)
    /\ (last.op = "saveSpreadsheets" /\ last.err = NoErr) =>
          /\ StoredTeamNames(db) \ DOMAIN last.req.teams =
                StoredTeamNames(last.pre) \ DOMAIN last.req.teams
          /\ \A n \in StoredTeamNames(last.pre) \ DOMAIN last.req.teams :
                db[bucketTeamsSpreadsheets][n] =
                    last.pre[bucketTeamsSpreadsheets][n]

\* a call with manager nil and team A alone, on a store that held a manager,
\* another reference for A, and team B
C9_Witness ==
    /\ last.op = "saveSpreadsheets"
    /\ last.err = NoErr
    /\ last.req.manager.isNil
    /\ DOMAIN last.req.teams = {"A"}
    /\ StoredTeamNames(last.pre) = {"A", "B"}
    /\ last.pre[bucketTeamsSpreadsheets]["A"] # MarshalSheet(last.req.teams["A"])
    /\ Get(last.pre, bucketGameConfiguration,
           bucketGameConfiguration_managerSpreadsheet) # JNull

\* C10: when the function run inside update returns an error, the store is
\* afterwards what it was before the call: no bucket the call created and no
\* key it wrote is there.
C10_FailedUpdateWritesNothing ==
    (last.op = "saveSpreadsheets" /\ last.err # NoErr) =>
        /\ db = last.pre
        /\ getSpreadsheets(db) = getSpreadsheets(last.pre)

\* a call on a fresh store that failed after it had created the buckets and
\* put the manager and team A
C10_Witness ==
    /\ last.op = "saveSpreadsheets"
    /\ last.err = ErrKeyRequired
    /\ last.pre = EmptyDB
    /\ "A" \in StoredTeamNames(last.tx)
    /\ bucketGameConfiguration_managerSpreadsheet
          \in DOMAIN last.tx[bucketGameConfiguration]
    /\ db = EmptyDB

(***************************************************************************)
(* The layout arithmetic of app.go.  The question counts modelled are      *)
(* >= 0, where Go's / and % agree with \div and %.                         *)
(***************************************************************************)
questionsGroupLength == 12

errorString(msg) == Err("errorString", msg)

\* the %c verb on the runes '@' (64) to '[' (91)
AsciiChars ==
    <<"@", "A", "B", "C", "D", "E", "F", "G", "H", "I", "J", "K", "L", "M", "N",
      "O", "P", "Q", "R", "S", "T", "U", "V", "W", "X", "Y", "Z", "[">>
Chr(c) == AsciiChars[c - 63]

\* fmt.Sprintf("%c%d:%c%d", ...), with the four numbers it was made of
FormatRange(startColumn, startRow, endColumn, endRow) ==
    [err |-> NoErr,
     r |-> Chr(startColumn) \o Itoa(startRow) \o ":" \o Chr(endColumn) \o Itoa(endRow),
     startColumn |-> startColumn, startRow |-> startRow,
     endColumn |-> endColumn, endRow |-> endRow]

RangeError(msg) ==
    [err |-> errorString(msg), r |-> "",
     startColumn |-> 0, startRow |-> 0, endColumn |-> 0, endRow |-> 0]

\* a getLinkRange that takes the cap of the other two
getLinkRangeCap25(cfg, offset, length) ==
    IF length > 25 THEN RangeError("group length must be inferior to 25")
    ELSE LET startRow == offset * (Len(cfg.Teams) + 2) + 2
         IN  FormatRange(66, startRow, 66 + length, startRow + Len(cfg.Teams))

\* app.getLinkRange (app.go:315-325)
getLinkRange(cfg, offset, length) ==
    IF length > 24 THEN RangeError("group length must be inferior to 25")
    ELSE LET startRow == offset * (Len(cfg.Teams) + 2) + 2
             endRow == startRow + Len(cfg.Teams)
             startColumn == 66
             endColumn == startColumn + length
         IN  FormatRange(startColumn, startRow, endColumn, endRow)

\* app.getTeamRange (app.go:527-537)
getTeamRange(cfg, offset, length) ==
    IF length > 25 THEN RangeError("group length must be inferior to 25")
    ELSE LET startRow == offset * 3 + 1
             endRow == startRow + 1
             startColumn == 65
             endColumn == startColumn + length
         IN  FormatRange(startColumn, startRow, endColumn, endRow)

\* a getManagerRange whose row blocks are one row too close
getManagerRangeNoGap(cfg, offset, length) ==
    IF length > 25 THEN RangeError("group length must be inferior to 25")
    ELSE LET startRow == offset * (Len(cfg.Teams) + 1) + 1
         IN  FormatRange(65, startRow, 65 + length, startRow + Len(cfg.Teams) + 1)

\* app.getManagerRange (app.go:566-576)
getManagerRange(cfg, offset, length) ==
    IF length > 25 THEN RangeError("group length must be inferior to 25")
    ELSE LET startRow == offset * (Len(cfg.Teams) + 2) + 1
             endRow == startRow + Len(cfg.Teams) + 1
             startColumn == 65
             endColumn == startColumn + length
         IN  FormatRange(startColumn, startRow, endColumn, endRow)

(***************************************************************************)
(* createGroups and the three functions it is called with.  A group is     *)
(* kept with the index and the length it was made with.                    *)
(***************************************************************************)
\* the closures of createManagerAnswerGroups (391-408),
\* createLinkManagerTeamsGroups (419-440) and createTeamAnswerGroups (451-469)
createGroupFn(cfg, kind, length, currQuestionIndex, groups) ==
    LET index == Len(groups)
        r == CASE kind = "manager" -> getManagerRange(cfg, index, length)
               [] kind = "link" -> getLinkRange(cfg, index, length)
               [] OTHER -> getTeamRange(cfg, index, length)
        g == [Range |-> r.r, index |-> index, length |-> length,
              MajorDimension |-> IF kind = "team" THEN "ROWS" ELSE "COLUMNS",
              \* the question numbers written as headers (manager, team)
              labels |-> IF kind = "link" THEN << >>
                         ELSE [j \in 1..length |-> currQuestionIndex + j],
              \* the row of the team sheets the formulas import (link)
              currTeamRow |-> IF kind = "link" THEN 2 + 3 * index ELSE 0,
              cells |-> r]
    IN  IF r.err # NoErr THEN [groups |-> << >>, err |-> r.err]
        ELSE [groups |-> Append(groups, g), err |-> NoErr]

\* the loop of createGroups (app.go:550-555), from iteration i on
RECURSIVE fullGroups(_, _, _, _, _)
fullGroups(cfg, kind, i, currQuestionIndex, groups) ==
    IF i >= cfg.NumberOfQuestions \div questionsGroupLength
    THEN [groups |-> groups, err |-> NoErr]
    ELSE LET r == createGroupFn(cfg, kind, questionsGroupLength,
                                currQuestionIndex, groups)
         IN  IF r.err # NoErr THEN r
             ELSE fullGroups(cfg, kind, i + 1,
                             currQuestionIndex + questionsGroupLength, r.groups)

\* a createGroups that forgets the last, partial group
createGroupsNoRemainder(cfg, kind) ==
    LET w == IF cfg.HasWarmUpQuestion
             THEN createGroupFn(cfg, kind, 1, -1, << >>)
             ELSE [groups |-> << >>, err |-> NoErr]
    IN  IF w.err # NoErr THEN w ELSE fullGroups(cfg, kind, 0, 0, w.groups)

\* a createGroups that emits the last group even when nothing remains
createGroupsEmptyRemainder(cfg, kind) ==
    LET w == IF cfg.HasWarmUpQuestion
             THEN createGroupFn(cfg, kind, 1, -1, << >>)
             ELSE [groups |-> << >>, err |-> NoErr]
        quot == cfg.NumberOfQuestions \div questionsGroupLength
        rem == cfg.NumberOfQuestions % questionsGroupLength
    IN  IF w.err # NoErr THEN w
        ELSE LET f == fullGroups(cfg, kind, 0, 0, w.groups)
             IN  IF f.err # NoErr THEN f
                 ELSE createGroupFn(cfg, kind, rem,
                                    quot * questionsGroupLength, f.groups)

\* app.createGroups (app.go:539-564)
createGroups(cfg, kind) ==
    LET w == IF cfg.HasWarmUpQuestion
             THEN createGroupFn(cfg, kind, 1, -1, << >>)
             ELSE [groups |-> << >>, err |-> NoErr]
        quot == cfg.NumberOfQuestions \div questionsGroupLength
        rem == cfg.NumberOfQuestions % questionsGroupLength
    IN  IF w.err # NoErr THEN w
        ELSE LET f == fullGroups(cfg, kind, 0, 0, w.groups)
             IN  IF f.err # NoErr THEN f
                 ELSE IF rem # 0
                 THEN createGroupFn(cfg, kind, rem,
                                    quot * questionsGroupLength, f.groups)
                 ELSE f

NoGroups == [groups |-> << >>, err |-> NoErr, called |-> FALSE]
Called(r) == [groups |-> r.groups, err |-> r.err, called |-> TRUE]

\* app.createManagerAnswerGroups (app.go:382-413)
createManagerAnswerGroups(cfg) ==
    IF Len(cfg.Teams) = 0 \/ (cfg.NumberOfQuestions < 0 /\ ~cfg.HasWarmUpQuestion)
    THEN NoGroups ELSE Called(createGroups(cfg, "manager"))

\* app.createLinkManagerTeamsGroups (app.go:415-445)
createLinkManagerTeamsGroups(cfg) ==
    IF Len(cfg.Teams) = 0 \/ (cfg.NumberOfQuestions < 0 /\ ~cfg.HasWarmUpQuestion)
    THEN NoGroups ELSE Called(createGroups(cfg, "link"))

\* app.createTeamAnswerGroups (app.go:447-474)
createTeamAnswerGroups(cfg) ==
    IF cfg.NumberOfQuestions < 0 /\ ~cfg.HasWarmUpQuestion
    THEN NoGroups ELSE Called(createGroups(cfg, "team"))

\* app.getTeamAnswerGridRanges (app.go:476-525): the border ranges of a
\* team sheet, rows and columns 0-based, ends exclusive
getTeamAnswerGridRanges(cfg) ==
    IF cfg.NumberOfQuestions < 0 /\ ~cfg.HasWarmUpQuestion
    THEN [ranges |-> << >>, err |-> NoErr]
    ELSE LET questionGroupsCount ==
                 cfg.NumberOfQuestions \div questionsGroupLength
                 + (IF cfg.NumberOfQuestions % questionsGroupLength # 0
                    THEN 1 ELSE 0)
             gapWidth == 1
             groupWidth == 2
             warmup == IF cfg.HasWarmUpQuestion
                       THEN << [StartColumnIndex |-> 0, EndColumnIndex |-> 1,
                                StartRowIndex |-> 0, EndRowIndex |-> 2] >>
                       ELSE << >>
             firstOffset == IF cfg.HasWarmUpQuestion
                            THEN gapWidth + groupWidth ELSE 0
             \* rowOffset before iteration i of the loop (499-508)
             rowOffset(i) == firstOffset + i * (gapWidth + groupWidth)
             iterations == IF questionGroupsCount - 1 > 0
                           THEN questionGroupsCount - 1 ELSE 0
             full == [i \in 1..iterations |->
                         [StartColumnIndex |-> 0,
                          EndColumnIndex |-> questionsGroupLength,
                          StartRowIndex |-> rowOffset(i - 1),
                          EndRowIndex |-> rowOffset(i - 1) + groupWidth]]
             lastRangeLen ==
                 IF cfg.NumberOfQuestions % questionsGroupLength # 0
                 THEN cfg.NumberOfQuestions % questionsGroupLength
                 ELSE questionsGroupLength
             r == [StartColumnIndex |-> 0, EndColumnIndex |-> lastRangeLen,
                   StartRowIndex |-> rowOffset(iterations),
                   EndRowIndex |-> rowOffset(iterations) + groupWidth]
         IN  [ranges |-> Append(warmup \o full, r), err |-> NoErr]

(***************************************************************************)
(* getRoundRange (app.go:650-689).                                         *)
(***************************************************************************)
NoGridRange ==
    [StartRowIndex |-> 0, EndRowIndex |-> 0,
     StartColumnIndex |-> 0, EndColumnIndex |-> 0]

\* the part of getRoundRange after the bounds check (app.go:654-688)
roundGridRange(cfg, round) ==
    IF round = 0
    THEN IF ~cfg.HasWarmUpQuestion
         THEN [err |-> errorString("round " \o Itoa(round) \o
                   " is invalid as the game does not have a warm-up question"),
               gr |-> NoGridRange]
         ELSE [err |-> NoErr,
               gr |-> [StartRowIndex |-> 1, EndRowIndex |-> Len(cfg.Teams) + 1,
                       StartColumnIndex |-> 1, EndColumnIndex |-> 2]]
    ELSE LET groupWidth == 1 + Len(cfg.Teams)
             gapWidth == 1
             firstGroupRow == IF cfg.HasWarmUpQuestion
                              THEN groupWidth + gapWidth ELSE 0
             questionsCountInGroup == 12
             groupIndex == round \div questionsCountInGroup
             groupRow == firstGroupRow + groupIndex * (groupWidth + gapWidth)
             firstResultRow == groupRow + 1
             lastResultRow == groupRow + Len(cfg.Teams)
             questionMod == IF round % questionsCountInGroup = 0
                            THEN questionsCountInGroup
                            ELSE round % questionsCountInGroup
         IN  [err |-> NoErr,
              gr |-> [StartRowIndex |-> firstResultRow,
                      EndRowIndex |-> lastResultRow + 1,
                      StartColumnIndex |-> questionMod,
                      EndColumnIndex |-> questionMod + 1]]

roundOutOfRange(cfg, round) ==
    [err |-> errorString("round " \o Itoa(round) \o " is out of range [0; "
                           \o Itoa(cfg.NumberOfQuestions) \o "]"),
     gr |-> NoGridRange]

\* a getRoundRange that takes the range of its message, [0; NumberOfQuestions]
getRoundRangeInclusive(cfg, round) ==
    IF round < 0 \/ round > cfg.NumberOfQuestions
    THEN roundOutOfRange(cfg, round)
    ELSE roundGridRange(cfg, round)

\* app.getRoundRange (app.go:650-689)
getRoundRange(cfg, round) ==
    IF round < 0 \/ round >= cfg.NumberOfQuestions
    THEN roundOutOfRange(cfg, round)
    ELSE roundGridRange(cfg, round)

(***************************************************************************)
(* The layout functions called on every configuration within the bounds.   *)
(***************************************************************************)
MaxQuestions == 26
LayoutTeams == {<< >>, <<"A">>, <<"A", "B">>}

InitLayout ==
    /\ config \in [NumberOfQuestions : 0..MaxQuestions,
                    HasWarmUpQuestion : BOOLEAN, Teams : LayoutTeams]
    /\ db = EmptyDB
    /\ saved = {}
    /\ latest = NilRegistry
    /\ last = NoOp
    /\ prev = NoOp
    /\ procs = NoProcs

GroupsCall(op, r) ==
    [op |-> op, err |-> r.err, groups |-> r.groups, called |-> r.called]

CreateManagerAnswerGroups ==
    /\ last' = GroupsCall("createManagerAnswerGroups",
                          createManagerAnswerGroups(config))
    /\ UNCHANGED <<config, db, saved, latest, prev, procs>>

CreateLinkManagerTeamsGroups ==
    /\ last' = GroupsCall("createLinkManagerTeamsGroups",
                          createLinkManagerTeamsGroups(config))
    /\ UNCHANGED <<config, db, saved, latest, prev, procs>>

CreateTeamAnswerGroups ==
    /\ last' = GroupsCall("createTeamAnswerGroups", createTeamAnswerGroups(config))
    /\ UNCHANGED <<config, db, saved, latest, prev, procs>>

GetRoundRange ==
    \E round \in -1..(MaxQuestions + 1) :
        LET r == getRoundRange(config, round)
        IN  /\ last' = [op |-> "getRoundRange", round |-> round,
                        err |-> r.err, gr |-> r.gr]
            /\ UNCHANGED <<config, db, saved, latest, prev, procs>>

GetTeamAnswerGridRanges ==
    LET r == getTeamAnswerGridRanges(config)
    IN  /\ last' = [op |-> "getTeamAnswerGridRanges",
                    err |-> r.err, ranges |-> r.ranges]
        /\ UNCHANGED <<config, db, saved, latest, prev, procs>>

NextLayout ==
    \/ CreateManagerAnswerGroups
    \/ CreateLinkManagerTeamsGroups
    \/ CreateTeamAnswerGroups
    \/ GetTeamAnswerGridRanges
    \/ GetRoundRange

SpecLayout == InitLayout /\ [][NextLayout]_vars

(***************************************************************************)
(* Properties of the layout.                                               *)
(***************************************************************************)
RECURSIVE SumLengths(_)
SumLengths(groups) ==
    IF groups = << >> THEN 0 ELSE Head(groups).length + SumLengths(Tail(groups))

\* createGroups was called and returned its groups
GroupsBuilt ==
    /\ last.op \in {"createManagerAnswerGroups", "createLinkManagerTeamsGroups",
                    "createTeamAnswerGroups"}
    /\ last.called
    /\ last.err = NoErr

GroupsNumberedFromZero ==
    \A i \in 1..Len(last.groups) : last.groups[i].index = i - 1

\* C4 as stated: for every question count and warm-up flag the lengths of
\* the groups createGroups emits sum to NumberOfQuestions, and the group
\* indices are 0, 1, ..., k-1 in emission order.
C4_LengthsSumToQuestions ==
    GroupsBuilt =>
        /\ SumLengths(last.groups) = config.NumberOfQuestions
        /\ GroupsNumberedFromZero

\* C4 amended: the lengths sum to NumberOfQuestions, plus one for the
\* warm-up group when the game has a warm-up question; the group indices are
\* 0, 1, ..., k-1 in emission order.
C4_LengthsSum ==
    GroupsBuilt =>
        /\ SumLengths(last.groups) =
              config.NumberOfQuestions + (IF config.HasWarmUpQuestion THEN 1 ELSE 0)
        /\ GroupsNumberedFromZero

\* a warm-up group, two full groups and a partial one
C4_Witness ==
    /\ GroupsBuilt
    /\ config.HasWarmUpQuestion
    /\ config.NumberOfQuestions = 25
    /\ Len(last.groups) = 4
    /\ last.groups[4].length = 1

RoundRangeOf(round) == last.op = "getRoundRange" /\ last.round = round

\* the first result row of question group g, below the warm-up block
FirstResultRowOfGroup(g) ==
    (Len(config.Teams) + 2) + g * (Len(config.Teams) + 2) + 1

\* C5: round 0 is accepted only in a game with a warm-up question; and in a
\* game with a warm-up question and 13 questions, round 1 is read from
\* question group 0 at column index 1 and round 13 from question group 1 at
\* column index 1.
C5_RoundLookup ==
    /\ (RoundRangeOf(0) /\ last.err = NoErr) => config.HasWarmUpQuestion
    /\ (config.HasWarmUpQuestion /\ config.NumberOfQuestions = 13) =>
          /\ RoundRangeOf(1) =>
                /\ last.err = NoErr
                /\ last.gr.StartRowIndex = FirstResultRowOfGroup(0)
                /\ last.gr.StartColumnIndex = 1
          /\ RoundRangeOf(13) =>
                /\ last.err = NoErr
                /\ last.gr.StartRowIndex = FirstResultRowOfGroup(1)
                /\ last.gr.StartColumnIndex = 1

\* C6: getRoundRange returns an error and no range exactly when round < 0,
\* round >= NumberOfQuestions, or round = 0 without a warm-up question; any
\* other round gets a range one column wide and len(Teams) rows high.
C6_RoundRangeErrors ==
    last.op = "getRoundRange" =>
        LET refused == \/ last.round < 0
                       \/ last.round >= config.NumberOfQuestions
                       \/ (last.round = 0 /\ ~config.HasWarmUpQuestion)
        IN  /\ (last.err # NoErr) <=> refused
            /\ refused => last.gr = NoGridRange
            /\ ~refused =>
                  /\ last.gr.EndColumnIndex = last.gr.StartColumnIndex + 1
                  /\ last.gr.EndRowIndex - last.gr.StartRowIndex = Len(config.Teams)

\* the last round accepted in a game of two teams
C6_Witness ==
    /\ RoundRangeOf(config.NumberOfQuestions - 1)
    /\ config.NumberOfQuestions = 25
    /\ Len(config.Teams) = 2
    /\ last.err = NoErr
    /\ last.gr.EndRowIndex - last.gr.StartRowIndex = 2

(***************************************************************************)
(* The three range functions called directly, two calls in a row.  The     *)
(* lengths tried are the small ones createGroups passes and the ones       *)
(* around the caps.                                                        *)
(***************************************************************************)
MaxOffset == 2
MaxLength == 26
Lengths == {0, 1, questionsGroupLength} \cup (23..MaxLength)

InitRange ==
    /\ config \in [NumberOfQuestions : {0}, HasWarmUpQuestion : {FALSE},
                    Teams : LayoutTeams]
    /\ db = EmptyDB
    /\ saved = {}
    /\ latest = NilRegistry
    /\ last = NoOp
    /\ prev = NoOp
    /\ procs = NoProcs

\* what is kept of the call before the last one
Rows(call) ==
    IF call.op = "none" THEN NoOp
    ELSE [op |-> call.op, offset |-> call.offset, err |-> call.err,
          startRow |-> call.range.startRow, endRow |-> call.range.endRow]

RangeCall(op, offset, length, r) ==
    [op |-> op, offset |-> offset, length |-> length, err |-> r.err, range |-> r]

GetManagerRange ==
    \E offset \in 0..MaxOffset, length \in Lengths :
        /\ last' = RangeCall("getManagerRange", offset, length,
                             getManagerRange(config, offset, length))
        /\ prev' = Rows(last)
        /\ UNCHANGED <<config, db, saved, latest, procs>>

GetTeamRange ==
    \E offset \in 0..MaxOffset, length \in Lengths :
        /\ last' = RangeCall("getTeamRange", offset, length,
                             getTeamRange(config, offset, length))
        /\ prev' = Rows(last)
        /\ UNCHANGED <<config, db, saved, latest, procs>>

GetLinkRange ==
    \E offset \in 0..MaxOffset, length \in Lengths :
        /\ last' = RangeCall("getLinkRange", offset, length,
                             getLinkRange(config, offset, length))
        /\ prev' = Rows(last)
        /\ UNCHANGED <<config, db, saved, latest, procs>>

NextRange == GetManagerRange \/ GetTeamRange \/ GetLinkRange

SpecRange == InitRange /\ [][NextRange]_vars

\* the largest group length each function takes
Cap(op) == IF op = "getLinkRange" THEN 24 ELSE 25

C8_RowsDisjoint ==
    (/\ last.op # "none" /\ prev.op = last.op
     /\ last.err = NoErr /\ prev.err = NoErr) =>
        /\ prev.offset < last.offset => prev.endRow < last.range.startRow
        /\ last.offset < prev.offset => last.range.endRow < prev.startRow

\* the manager ranges of groups 0 and 1 of a two-team game: rows 1-4 and 5-8
C8_Witness ==
    /\ last.op = "getManagerRange" /\ prev.op = "getManagerRange"
    /\ Len(config.Teams) = 2
    /\ prev.offset = 0 /\ last.offset = 1
    /\ prev.err = NoErr /\ last.err = NoErr
    /\ prev.endRow = 4 /\ last.range.startRow = 5

(***************************************************************************)
(* Round results (store.go:148-235).                                       *)
(***************************************************************************)
ResponseStatusOK == 1
ResponseStatusKO == 2
ResponseStatusInQuestion == 3
ResponseStatusNotChecked == 4

\* *roundResponse and *roundResults; Results is a map from team to response
RoundResponse(response, status) == [Response |-> response, Status |-> status]
RoundResults(round, results) == [isNil |-> FALSE, Round |-> round, Results |-> results]
NoResults == << >>
NilRoundResults == [isNil |-> TRUE, Round |-> 0, Results |-> NoResults]

\* json.Marshal and json.Unmarshal of a roundResults
MarshalRound(req) == [j |-> "object", Round |-> req.Round, Results |-> req.Results]
UnmarshalRound(bytes) == RoundResults(bytes.Round, bytes.Results)

roundNotFound(round) == "round " \o Itoa(round) \o " results are not found"

\* the function saveRoundResults hands to update (store.go:192-205)
saveRoundResultsFn(tx, req) ==
    IF getBucket(tx, bucketGameResults) # NoErr
    THEN [tx |-> tx, err |-> getBucket(tx, bucketGameResults)]
    ELSE Put(tx, bucketGameResults, Itoa(req.Round), MarshalRound(req))

\* a saveRoundResults that adds the request's teams to those of the record
\* the round already has
saveRoundResultsMerging(store, req) ==
    LET tx == createBuckets(store)
        old == IF Itoa(req.Round) \in DOMAIN tx[bucketGameResults]
               THEN tx[bucketGameResults][Itoa(req.Round)].Results ELSE NoResults
        merged == [t \in DOMAIN old \cup DOMAIN req.Results |->
                      IF t \in DOMAIN req.Results THEN req.Results[t] ELSE old[t]]
        r == saveRoundResultsFn(tx, RoundResults(req.Round, merged))
    IN  [db |-> Commit(store, r), err |-> r.err, tx |-> r.tx]

\* boltManager.saveRoundResults (store.go:191-210)
saveRoundResults(store, req) ==
    LET r == saveRoundResultsFn(createBuckets(store), req)
    IN  [db |-> Commit(store, r), err |-> r.err, tx |-> r.tx]

\* a getRoundResults that decodes whatever Get returns
getRoundResultsNoLenCheck(store, round) ==
    IF getBucket(store, bucketGameResults) # NoErr
    THEN [err |-> NoErr, val |-> RoundResults(0, NoResults)]
    ELSE LET results == Get(store, bucketGameResults, Itoa(round))
         IN  IF results.j = "empty"
             THEN [err |-> ErrUnexpectedEndOfJSON, val |-> NilRoundResults]
             ELSE [err |-> NoErr, val |-> UnmarshalRound(results)]

\* boltManager.getRoundResults (store.go:212-235)
getRoundResults(store, round) ==
    IF getBucket(store, bucketGameResults) # NoErr
    THEN IF getBucket(store, bucketGameResults).type = "errorInexistantBucket"
         THEN [err |-> NoErr, val |-> RoundResults(0, NoResults)]
         ELSE [err |-> getBucket(store, bucketGameResults), val |-> NilRoundResults]
    ELSE LET results == Get(store, bucketGameResults, Itoa(round))
         IN  IF results.j = "empty"
             THEN [err |-> errorString(roundNotFound(round)), val |-> NilRoundResults]
             ELSE [err |-> NoErr, val |-> UnmarshalRound(results)]

(***************************************************************************)
(* The commands of app.go.                                                 *)
(***************************************************************************)
\* the remote call failed, or the terminal was closed
ErrRemote == Err("remote", "googleapi: error")
ErrStdin == errorString("failed to scan the command: EOF")
Wrapped(prefix, err) == errorString(prefix \o err.msg)

\* the loop of CmdGetTotal (app.go:130-146), from round i on; a record's
\* teams are met in the map's iteration order, of which order is one choice
RECURSIVE totalFrom(_, _, _, _, _)
totalFrom(cfg, store, i, total, order) ==
    IF i >= cfg.NumberOfQuestions THEN [err |-> NoErr, total |-> total]
    ELSE LET r == getRoundResults(store, i)
         IN  IF r.err # NoErr
             THEN IF r.err.msg = roundNotFound(i)
                  THEN totalFrom(cfg, store, i + 1, total, order)
                  ELSE [err |-> r.err, total |-> NoResults]
             ELSE LET unknown == {k \in 1..Len(order) :
                                     /\ order[k] \in DOMAIN r.val.Results
                                     /\ order[k] \notin DOMAIN total}
                      met == order[CHOOSE k \in unknown : \A j \in unknown : k <= j]
                  IN  IF unknown # {}
                      THEN [err |-> errorString("team " \o met \o " is unknown"),
                            total |-> NoResults]
                      ELSE totalFrom(cfg, store, i + 1,
                               [t \in DOMAIN total |->
                                   IF /\ t \in DOMAIN r.val.Results
                                      /\ r.val.Results[t].Status = ResponseStatusOK
                                   THEN total[t] + 1 ELSE total[t]], order)

\* a CmdGetTotal that starts at round 0 whatever the warm-up flag
CmdGetTotalFromZero(cfg, store, order) ==
    totalFrom(cfg, store, 0,
              [i \in {cfg.Teams[k] : k \in 1..Len(cfg.Teams)} |-> 0], order)

\* app.CmdGetTotal (app.go:121-151)
CmdGetTotal(cfg, store, order) ==
    LET firstInd == IF cfg.HasWarmUpQuestion THEN 1 ELSE 0
        total == [t \in {cfg.Teams[k] : k \in 1..Len(cfg.Teams)} |-> 0]
    IN  totalFrom(cfg, store, firstInd, total, order)

\* app.fetchRoundResults (app.go:610-648); column is what the sheet returned:
\* the answers of the first teams, or no column at all
fetchRoundResults(cfg, store, round, remoteOK, column) ==
    LET sheets == getSpreadsheets(store)
        rr == getRoundRange(cfg, round)
    IN  IF sheets.err # NoErr THEN [err |-> sheets.err, results |-> NoResults]
        ELSE IF rr.err # NoErr THEN [err |-> rr.err, results |-> NoResults]
        ELSE IF sheets.val.manager.isNil
        THEN [err |-> Err("panic", "nil pointer dereference"), results |-> NoResults]
        ELSE IF ~remoteOK THEN [err |-> ErrRemote, results |-> NoResults]
        ELSE IF Len(column) = 0
        THEN [err |-> errorString("unexpected length of ValueRange values: 0"),
              results |-> NoResults]
        ELSE IF Len(column) > Len(cfg.Teams)
        THEN [err |-> Err("panic", "index out of range"), results |-> NoResults]
        ELSE [err |-> NoErr,
              results |-> [t \in {cfg.Teams[i] : i \in 1..Len(column)} |->
                             column[CHOOSE i \in 1..Len(column) : cfg.Teams[i] = t]]]

\* a CmdFetchResults that keeps the status a team already has in the record
CmdFetchResultsKeepStatus(cfg, store, round, remoteOK, column) ==
    LET f == fetchRoundResults(cfg, store, round, remoteOK, column)
        old == getRoundResults(store, round).val.Results
        w == saveRoundResults(store,
                 RoundResults(round,
                     [t \in DOMAIN f.results |->
                         RoundResponse(f.results[t],
                             IF t \in DOMAIN old THEN old[t].Status
                             ELSE ResponseStatusNotChecked)]))
    IN  IF f.err # NoErr
        THEN [db |-> store, saved |-> FALSE, err |-> f.err]
        ELSE [db |-> w.db, saved |-> w.err = NoErr, err |-> w.err]

\* app.CmdFetchResults (app.go:153-178)
CmdFetchResults(cfg, store, round, remoteOK, column) ==
    LET f == fetchRoundResults(cfg, store, round, remoteOK, column)
    IN  IF f.err # NoErr
        THEN [db |-> store, saved |-> FALSE,
              err |-> IF f.err.type = "panic" THEN f.err
                      ELSE Wrapped("failed to fetch round results: ", f.err)]
        ELSE LET storeReq ==
                     RoundResults(round,
                         [t \in DOMAIN f.results |->
                             RoundResponse(f.results[t], ResponseStatusNotChecked)])
                 w == saveRoundResults(store, storeReq)
             IN  IF w.err # NoErr
                 THEN [db |-> w.db, saved |-> FALSE,
                       err |-> Wrapped("failed to store round results: ", w.err)]
                 ELSE [db |-> w.db, saved |-> TRUE, err |-> NoErr]

\* the status a line typed at the prompt of checkResults stands for
StatusOf(line) ==
    CASE line = "+" -> ResponseStatusOK
      [] line = "-" -> ResponseStatusKO
      [] line = "?" -> ResponseStatusInQuestion
      [] line = "" -> ResponseStatusNotChecked

\* a checkResults that grades only the teams not graded yet
checkResultsGradeOnce(results, lines) ==
    RoundResults(results.Round,
        [t \in DOMAIN results.Results |->
            RoundResponse(results.Results[t].Response,
                IF results.Results[t].Status = ResponseStatusNotChecked
                THEN StatusOf(lines[t]) ELSE results.Results[t].Status)])

\* checkResults (app.go:199-228) with the accepted line typed for each team
checkResults(results, lines) ==
    RoundResults(results.Round,
        [t \in DOMAIN results.Results |->
            RoundResponse(results.Results[t].Response, StatusOf(lines[t]))])

\* app.CmdCheckResults (app.go:181-197); stdinOK is false when reading the
\* terminal fails before every team has a status
CmdCheckResults(store, round, lines, stdinOK) ==
    LET g == getRoundResults(store, round)
    IN  IF g.err # NoErr THEN [db |-> store, saved |-> FALSE, err |-> g.err, key |-> 0]
        ELSE IF ~stdinOK /\ DOMAIN g.val.Results # {}
        THEN [db |-> store, saved |-> FALSE, err |-> ErrStdin, key |-> 0]
        ELSE LET checked == checkResults(g.val, lines)
                 w == saveRoundResults(store, checked)
             IN  IF w.err # NoErr
                 THEN [db |-> w.db, saved |-> FALSE, key |-> 0,
                       err |-> Wrapped("failed to store round results: ", w.err)]
                 ELSE [db |-> w.db, saved |-> TRUE, err |-> NoErr,
                       key |-> checked.Round]

\* newStoreGameSpreadsheets (store.go:49-62) on the sheets the remote
\* service created for the manager and for each team of the configuration
createdSpreadsheets(cfg) ==
    Registry(Sheet("id-manager", "url-manager"),
             [t \in {cfg.Teams[k] : k \in 1..Len(cfg.Teams)} |->
                 Sheet("id-" \o t, "url-" \o t)])

(***************************************************************************)
(* The commands run by an operator, one at a time (app.Run).  A command    *)
(* that fails ends the process; Restart starts it again, possibly with     *)
(* another team list in the configuration file.                            *)
(***************************************************************************)
AppMaxQuestions == 2
AppTeams == {<<"A">>, <<"A", "B">>}
Responses == {"x"}
Lines == {"+", "-", "?", ""}

\* the rounds a command is asked for: the first and the last round of the
\* game and the numbers next to them
Rounds(cfg) == {-1, 0, cfg.NumberOfQuestions - 1, cfg.NumberOfQuestions}

\* the lines typed for a team: any status for the first team, a right
\* answer or nothing for the others
LinesOf(t) == IF t = "A" THEN Lines ELSE {"+", ""}

\* the record of a round before a command that replaces it
Before(store, round) ==
    [op |-> "before",
     found |-> /\ bucketGameResults \in DOMAIN store
               /\ Itoa(round) \in DOMAIN store[bucketGameResults],
     val |-> getRoundResults(store, round).val]

\* what the remote read of a round's column may give: an error, or the
\* answers of the first k teams (the cells after the last answer are left out)
RemoteReads(cfg) ==
    {[ok |-> FALSE, column |-> << >>]} \cup
    {[ok |-> TRUE, column |-> c] :
        c \in UNION {[1..k -> Responses] : k \in 0..Len(cfg.Teams)}}

InitApp ==
    /\ config \in [NumberOfQuestions : 0..AppMaxQuestions,
                    HasWarmUpQuestion : BOOLEAN, Teams : AppTeams]
    /\ db = EmptyDB
    /\ saved = {}
    /\ latest = NilRegistry
    /\ last = NoOp
    /\ prev = NoOp
    /\ procs = NoProcs

Command(op, round, err, val) == [op |-> op, round |-> round, err |-> err, val |-> val]

\* app.CreateGameSpreadsheets (app.go:256-274), run by a process started
\* with -newGame, which checkOutputDir allows in a directory without a store
CreateGameSpreadsheets ==
    /\ db = EmptyDB
    /\ \E remote \in {"create fails", "fill fails", "ok"} :
         \E order \in Orders(DOMAIN createdSpreadsheets(config).teams) :
            LET w == saveSpreadsheets(db, createdSpreadsheets(config), order)
            IN  IF remote = "create fails"
                THEN /\ db' = db
                     /\ last' = Command("newGame", 0, ErrRemote, 0)
                ELSE /\ db' = w.db
                     /\ last' = Command("newGame", 0,
                                    IF w.err # NoErr THEN w.err
                                    ELSE IF remote = "fill fails" THEN ErrRemote
                                    ELSE NoErr, 0)
    /\ prev' = NoOp
    /\ UNCHANGED <<config, saved, latest, procs>>

Restart ==
    \E teams \in AppTeams \ {config.Teams} :
        /\ config' = [config EXCEPT !.Teams = teams]
        /\ last' = Command("restart", 0, NoErr, 0)
        /\ prev' = NoOp
        /\ UNCHANGED <<db, saved, latest, procs>>

\* app.CmdListURLs (app.go:112-119)
ListURLs ==
    LET r == getSpreadsheets(db)
    IN  /\ last' = Command("listURLs", 0, r.err, r.val)
        /\ prev' = NoOp
        /\ UNCHANGED <<config, db, saved, latest, procs>>

\* app.CmdFetchResults (app.go:153-178)
FetchResults ==
    \E round \in Rounds(config), remote \in RemoteReads(config) :
        LET r == CmdFetchResults(config, db, round, remote.ok, remote.column)
        IN  /\ db' = r.db
            /\ saved' = IF r.saved THEN saved \cup {round} ELSE saved
            /\ last' = Command("fetch", round, r.err,
                                IF r.err = NoErr THEN remote.column ELSE << >>)
            /\ prev' = IF r.err = NoErr THEN Before(db, round) ELSE NoOp
            /\ UNCHANGED <<config, latest, procs>>

\* what the operator types at the prompts of a round's teams: a status line
\* for each, or the end of the input before the last one
Typed(teams) ==
    {[ok |-> FALSE, lines |-> << >>]} \cup
    {[ok |-> TRUE, lines |-> l] :
        l \in {f \in [teams -> Lines] : \A t \in teams : f[t] \in LinesOf(t)}}

\* app.CmdCheckResults (app.go:181-197)
CheckResults ==
    \E round \in Rounds(config) :
      \E typed \in Typed(DOMAIN getRoundResults(db, round).val.Results) :
        LET r == CmdCheckResults(db, round, typed.lines, typed.ok)
        IN  /\ db' = r.db
            /\ saved' = IF r.saved THEN saved \cup {r.key} ELSE saved
            /\ last' = Command("check", round, r.err,
                                IF r.err = NoErr THEN typed.lines ELSE << >>)
            /\ prev' = IF r.err = NoErr THEN Before(db, round) ELSE NoOp
            /\ UNCHANGED <<config, latest, procs>>

\* app.CmdGetResults (app.go:230-241)
GetResults ==
    \E round \in Rounds(config) :
        LET r == getRoundResults(db, round)
        IN  /\ last' = Command("get", round, r.err, r.val)
            /\ prev' = NoOp
            /\ UNCHANGED <<config, db, saved, latest, procs>>

\* app.CmdGetTotal (app.go:121-151)
GetTotal ==
    \E order \in Orders({"A", "B"}) :
        LET r == CmdGetTotal(config, db, order)
        IN  /\ last' = Command("total", 0, r.err, r.total)
            /\ prev' = NoOp
            /\ UNCHANGED <<config, db, saved, latest, procs>>

\* boltManager.saveSpreadsheets (store.go:73-108) called on the store as it
\* is, with the registry of a new game: an update that saves no round
SaveGameSpreadsheets ==
    LET req == createdSpreadsheets([Teams |-> <<"A">>])
        w == saveSpreadsheets(db, req, <<"A">>)
    IN  /\ db' = w.db
        /\ last' = [op |-> "saveSpreadsheets", req |-> req, err |-> w.err]
        /\ prev' = NoOp
        /\ UNCHANGED <<config, saved, latest, procs>>

NextApp ==
    \/ CreateGameSpreadsheets
    \/ ListURLs
    \/ FetchResults
    \/ CheckResults
    \/ GetResults
    \/ GetTotal
    \/ SaveGameSpreadsheets

SpecApp == InitApp /\ [][NextApp]_vars

(***************************************************************************)
(* Two processes started in the directory of one game.  bolt.Open takes    *)
(* the lock of the store file and update and read (store.go:237-274) close *)
(* the file when their transaction ends, so a transaction is one step and  *)
(* the other process may run between two transactions of a command.        *)
(* CmdCheckResults has two, with the prompts of checkResults in between;   *)
(* the only transaction of CmdFetchResults that meets the rounds is its    *)
(* save.                                                                   *)
(***************************************************************************)
ProcIds == {"p1", "p2"}
SharedTeams == {<<"A">>}
SharedResponses == {"x", "y"}

Idle == [pc |-> "idle"]
\* no fetch of the round was committed since the process read it
NoneMissed == [found |-> FALSE]

\* the rounds the two processes are asked for: the last round of the game
\* and the number after it
SharedRounds(cfg) == {cfg.NumberOfQuestions - 1, cfg.NumberOfQuestions}

\* what the remote read of a round's column may give (app.go:620-630)
SharedReads(cfg) ==
    {[ok |-> FALSE, column |-> << >>]} \cup
    {[ok |-> TRUE, column |-> c] :
        c \in UNION {[1..k -> SharedResponses] : k \in 0..Len(cfg.Teams)}}

\* the store of a game created with -newGame (app.go:256-274)
InitConcurrent ==
    /\ config \in [NumberOfQuestions : 1..AppMaxQuestions,
                    HasWarmUpQuestion : BOOLEAN, Teams : SharedTeams]
    /\ \E order \in Orders(DOMAIN createdSpreadsheets(config).teams) :
          db = saveSpreadsheets(EmptyDB, createdSpreadsheets(config), order).db
    /\ saved = {}
    /\ latest = NilRegistry
    /\ last = NoOp
    /\ prev = NoOp
    /\ procs = [p \in ProcIds |-> Idle]

\* app.CmdFetchResults (app.go:153-178) in process p; a process in the
\* middle of a check of the round has missed the record this one commits
FetchResultsIn(p) ==
    /\ procs[p].pc = "idle"
    /\ \E round \in SharedRounds(config), remote \in SharedReads(config) :
        LET r == CmdFetchResults(config, db, round, remote.ok, remote.column)
        IN  /\ db' = r.db
            /\ saved' = IF r.saved THEN saved \cup {round} ELSE saved
            /\ last' = [op |-> "fetch", proc |-> p, round |-> round,
                        err |-> r.err,
                        val |-> IF r.err = NoErr THEN remote.column ELSE << >>]
            /\ prev' = IF r.err = NoErr THEN Before(db, round) ELSE NoOp
            /\ procs' = [q \in ProcIds |->
                            IF /\ r.err = NoErr
                               /\ procs[q].pc = "checkResults"
                               /\ procs[q].round = round
                            THEN [procs[q] EXCEPT !.missed =
                                     [found |-> TRUE,
                                      val |-> getRoundResults(r.db, round).val]]
                            ELSE procs[q]]
            /\ UNCHANGED <<config, latest>>

\* app.CmdCheckResults in process p up to its read (app.go:181-189): the
\* command ends on an error, or goes on to the prompts with the record read
CheckResultsRead(p) ==
    /\ procs[p].pc = "idle"
    /\ \E round \in SharedRounds(config) :
        LET g == getRoundResults(db, round)
        IN  IF g.err # NoErr
            THEN /\ last' = [op |-> "check", proc |-> p, round |-> round,
                             err |-> g.err, val |-> << >>,
                             read |-> g.val, missed |-> NoneMissed]
                 /\ procs' = procs
            ELSE /\ last' = [op |-> "getRoundResults", proc |-> p,
                             round |-> round, err |-> NoErr, val |-> g.val]
                 /\ procs' = [procs EXCEPT ![p] =
                                 [pc |-> "checkResults", round |-> round,
                                  results |-> g.val, missed |-> NoneMissed]]
    /\ prev' = NoOp
    /\ UNCHANGED <<config, db, saved, latest>>

\* app.CmdCheckResults in process p from the prompts on (app.go:190-196):
\* checkResults grades the record read, saveRoundResults stores it
CheckResultsSave(p) ==
    /\ procs[p].pc = "checkResults"
    /\ \E typed \in Typed(DOMAIN procs[p].results.Results) :
        LET results == procs[p].results
            checked == checkResults(results, typed.lines)
            w == saveRoundResults(db, checked)
            err == IF ~typed.ok /\ DOMAIN results.Results # {} THEN ErrStdin
                   ELSE IF w.err # NoErr
                   THEN Wrapped("failed to store round results: ", w.err)
                   ELSE NoErr
        IN  /\ db' = IF err = ErrStdin THEN db ELSE w.db
            /\ saved' = IF err = NoErr THEN saved \cup {checked.Round} ELSE saved
            /\ last' = [op |-> "check", proc |-> p, round |-> procs[p].round,
                        err |-> err,
                        val |-> IF err = NoErr THEN typed.lines ELSE << >>,
                        read |-> results, missed |-> procs[p].missed]
            /\ prev' = IF err = NoErr THEN Before(db, procs[p].round) ELSE NoOp
    /\ procs' = [procs EXCEPT ![p] = Idle]
    /\ UNCHANGED <<config, latest>>

NextConcurrent ==
    \E p \in ProcIds :
        \/ FetchResultsIn(p)
        \/ CheckResultsRead(p)
        \/ CheckResultsSave(p)

SpecConcurrent == InitConcurrent /\ [][NextConcurrent]_vars

(***************************************************************************)
(* The store's round interface, called with arbitrary requests on a store  *)
(* that may or may not hold a registry.                                    *)
(***************************************************************************)
MaxRound == 1

RoundMaps ==
    { NoResults,
      [t \in {"A"} |-> RoundResponse("x", ResponseStatusOK)],
      [t \in {"A", "B"} |->
          IF t = "A" THEN RoundResponse("y", ResponseStatusNotChecked)
          ELSE RoundResponse("", ResponseStatusKO)] }
RoundRequests == {RoundResults(n, m) : n \in 0..MaxRound, m \in RoundMaps}

InitRounds ==
    /\ config = DefaultConfig
    /\ db = EmptyDB
    /\ saved = {}
    /\ latest = NilRegistry
    /\ last = NoOp
    /\ prev = NoOp
    /\ procs = NoProcs

SaveRoundResults ==
    \E req \in RoundRequests :
        LET w == saveRoundResults(db, req)
        IN  /\ db' = w.db
            /\ saved' = IF w.err = NoErr THEN saved \cup {req.Round} ELSE saved
            /\ last' = [op |-> "saveRoundResults", req |-> req, err |-> w.err,
                        pre |-> db]
            /\ prev' = NoOp
            /\ UNCHANGED <<config, latest, procs>>

GetRoundResults ==
    \E round \in -1..(MaxRound + 1) :
        LET r == getRoundResults(db, round)
        IN  /\ last' = [op |-> "getRoundResults", round |-> round,
                        err |-> r.err, val |-> r.val]
            /\ prev' = IF last.op = "saveRoundResults" THEN last ELSE NoOp
            /\ UNCHANGED <<config, db, saved, latest, procs>>

NextRounds == SaveRoundResults \/ GetRoundResults \/ SaveGameSpreadsheets

SpecRounds == InitRounds /\ [][NextRounds]_vars

NeverSaved == last.op = "getRoundResults" /\ last.round \notin saved

\* C2 as stated: in every reachable store state in which no saveRoundResults
\* for round n has succeeded, a store never updated included,
\* getRoundResults(n) fails with "round n results are not found" and
\* returns no record.
C2_NotFoundInAnyState ==
    NeverSaved =>
        /\ last.err = errorString(roundNotFound(last.round))
        /\ last.val.isNil

\* C2 amended: that holds in the states in which the results bucket exists,
\* i.e. after some update has run; on a store no update has run on,
\* getRoundResults(n) returns no error and an empty record (Round 0, no
\* results).  In neither case is the error a decode error.
C2_NotFound ==
    NeverSaved =>
        /\ bucketGameResults \in DOMAIN db =>
              /\ last.err = errorString(roundNotFound(last.round))
              /\ last.val.isNil
        /\ bucketGameResults \notin DOMAIN db =>
              /\ db = EmptyDB
              /\ last.err = NoErr
              /\ last.val = RoundResults(0, NoResults)

\* round 1 asked of a store that holds round 0 only
C2_Witness ==
    /\ NeverSaved
    /\ last.round = 1
    /\ saved = {0}
    /\ last.err.msg = "round 1 results are not found"

(***************************************************************************)
(* CmdGetTotal on the stores the commands leave: none (no update ran), or  *)
(* the registry of a game and, for each round, no record or the record of  *)
(* a fetch graded or not.  The configuration is read anew by each run, so  *)
(* its team list and question count may differ from the ones a record was  *)
(* fetched with.                                                           *)
(***************************************************************************)
TotalMaxQuestions == 2

TotalTeams == {<<"A">>, <<"A", "B">>}
Statuses == {ResponseStatusOK, ResponseStatusKO, ResponseStatusInQuestion,
             ResponseStatusNotChecked}

\* the results a round's record may hold: the teams of a fetch, each with
\* a status; round 0 may also hold the record without results that
\* CmdCheckResults saves on a store without results
ResultMaps ==
    UNION {[{teams[k] : k \in 1..Len(teams)} ->
               [Response : {"x"}, Status : Statuses]] : teams \in TotalTeams}
NoRecord == [none |-> TRUE]

\* the store after saveRoundResults of the results chosen for each round
\* from i on
RECURSIVE saveRounds(_, _, _)
saveRounds(store, maps, i) ==
    IF i >= TotalMaxQuestions THEN store
    ELSE saveRounds(IF maps[i] = NoRecord THEN store
                    ELSE saveRoundResults(store, RoundResults(i, maps[i])).db,
                    maps, i + 1)

InitTotal ==
    /\ config \in [NumberOfQuestions : 0..TotalMaxQuestions,
                    HasWarmUpQuestion : BOOLEAN, Teams : TotalTeams]
    /\ \/ db = EmptyDB
       \/ \E maps \in [0..(TotalMaxQuestions - 1) ->
                          {NoRecord, NoResults} \cup ResultMaps] :
            /\ \A n \in DOMAIN maps : maps[n] = NoResults => n = 0
            /\ db = saveRounds(
                        saveSpreadsheets(EmptyDB,
                            createdSpreadsheets([Teams |-> <<"A", "B">>]),
                            <<"A", "B">>).db,
                        maps, 0)
    /\ saved = {}
    /\ latest = NilRegistry
    /\ last = NoOp
    /\ prev = NoOp
    /\ procs = NoProcs

Total ==
    /\ last = NoOp
    /\ \E order \in Orders({"A", "B"}) :
          LET r == CmdGetTotal(config, db, order)
          IN  last' = [op |-> "total", err |-> r.err, total |-> r.total]
    /\ UNCHANGED <<config, db, saved, latest, prev, procs>>

NextTotal == Total

SpecTotal == InitTotal /\ [][NextTotal]_vars

ConfiguredTeams == {config.Teams[k] : k \in 1..Len(config.Teams)}
TotalRounds ==
    (IF config.HasWarmUpQuestion THEN 1 ELSE 0)..(config.NumberOfQuestions - 1)
HasRecord(i) ==
    /\ bucketGameResults \in DOMAIN db
    /\ Itoa(i) \in DOMAIN db[bucketGameResults]
StoredResults(i) == db[bucketGameResults][Itoa(i)].Results
UnknownTeams ==
    UNION {DOMAIN StoredResults(i) \ ConfiguredTeams :
              i \in {j \in TotalRounds : HasRecord(j)}}

\* C3: CmdGetTotal gives each configured team the number of rounds from
\* first (1 with a warm-up question, else 0) to NumberOfQuestions-1 whose
\* stored status for the team is OK, a round without a record counting for
\* nothing; it fails with the unknown-team error when a record of these
\* rounds holds a team that is not configured.
C3_Total ==
    last.op = "total" =>
        IF UnknownTeams # {}
        THEN \E t \in UnknownTeams :
                 last.err = errorString("team " \o t \o " is unknown")
        ELSE /\ last.err = NoErr
             /\ last.total =
                  [t \in ConfiguredTeams |->
                      Cardinality({i \in TotalRounds :
                          /\ HasRecord(i)
                          /\ t \in DOMAIN StoredResults(i)
                          /\ StoredResults(i)[t].Status = ResponseStatusOK})]

\* teams {A, B}, no warm-up, two questions, round 0 = {A: OK, B: KO} and
\* round 1 never saved: the total is {A: 1, B: 0}
C3_Witness ==
    /\ last.op = "total"
    /\ config = [NumberOfQuestions |-> 2, HasWarmUpQuestion |-> FALSE,
                 Teams |-> <<"A", "B">>]
    /\ HasRecord(0) /\ ~HasRecord(1)
    /\ DOMAIN StoredResults(0) = {"A", "B"}
    /\ StoredResults(0)["A"].Status = ResponseStatusOK
    /\ StoredResults(0)["B"].Status = ResponseStatusKO
    /\ last.err = NoErr
    /\ last.total = [t \in {"A", "B"} |-> IF t = "A" THEN 1 ELSE 0]

(***************************************************************************)
(* Properties of the commands.                                             *)
(***************************************************************************)
\* the teams a fetch returned: those of the column's cells
FetchedTeams == {config.Teams[i] : i \in 1..Len(last.val)}

\* C11: after a successful fetch of round n the stored record of round n
\* holds exactly the teams the fetch returned, each with its fetched
\* response and the status NotChecked, whatever the record held before.
C11_FetchResets ==
    (last.op = "fetch" /\ last.err = NoErr) =>
        /\ HasRecord(last.round)
        /\ db[bucketGameResults][Itoa(last.round)].Round = last.round
        /\ DOMAIN StoredResults(last.round) = FetchedTeams
        /\ \A i \in 1..Len(last.val) :
              StoredResults(last.round)[config.Teams[i]] =
                  RoundResponse(last.val[i], ResponseStatusNotChecked)

\* a fetch that returns team A only, over a record that held A graded OK
\* and B graded OK
C11_Witness ==
    /\ last.op = "fetch" /\ last.err = NoErr
    /\ Len(last.val) = 1
    /\ prev.op = "before" /\ prev.found
    /\ DOMAIN prev.val.Results = {"A", "B"}
    /\ prev.val.Results["A"].Status = ResponseStatusOK
    /\ prev.val.Results["B"].Status = ResponseStatusOK
    /\ StoredResults(last.round) =
          [t \in {"A"} |-> RoundResponse("x", ResponseStatusNotChecked)]

\* the keys of the results bucket, and the status of each team of a key
ResultKeys(store) ==
    IF bucketGameResults \in DOMAIN store
    THEN DOMAIN store[bucketGameResults] ELSE {}
TeamStatuses(store, key) ==
    IF key \in ResultKeys(store)
    THEN [t \in DOMAIN store[bucketGameResults][key].Results |->
             store[bucketGameResults][key].Results[t].Status]
    ELSE << >>

\* a step changes the statuses stored for a round only if it is a check or
\* a fetch of that round
StatusesKept ==
    \A key \in ResultKeys(db) \cup ResultKeys(db') :
        TeamStatuses(db, key) # TeamStatuses(db', key) =>
            /\ last'.op \in {"check", "fetch"}
            /\ key = Itoa(last'.round)

\* a successful check of a stored record gives each team the status of the
\* line typed for it, whatever its status was, and keeps the teams and
\* their responses
CheckSetsStatuses ==
    (last.op = "check" /\ last.err = NoErr /\ prev.found) =>
        /\ HasRecord(last.round)
        /\ DOMAIN StoredResults(last.round) = DOMAIN prev.val.Results
        /\ \A t \in DOMAIN prev.val.Results :
              StoredResults(last.round)[t] =
                  RoundResponse(prev.val.Results[t].Response, StatusOf(last.val[t]))

\* C12: the stored status of a team in round n changes only during a check
\* or a fetch of round n, not during get, total, listURLs, saveSpreadsheets
\* or the fetch or check of another round; and a check moves a team from
\* any status to any of the four, leaving the responses and the set of
\* teams of the record as they were.
C12_StatusChanges == [](CheckSetsStatuses) /\ [][StatusesKept]_vars

\* a check that takes team A back from OK to NotChecked and team B from
\* NotChecked to OK, in a store that holds another round
C12_Witness ==
    /\ last.op = "check" /\ last.err = NoErr /\ last.round = 1
    /\ prev.op = "before" /\ prev.found
    /\ DOMAIN prev.val.Results = {"A", "B"}
    /\ prev.val.Results["A"].Status = ResponseStatusOK
    /\ prev.val.Results["B"].Status = ResponseStatusNotChecked
    /\ StoredResults(1)["A"] = RoundResponse("x", ResponseStatusNotChecked)
    /\ StoredResults(1)["B"] = RoundResponse("x", ResponseStatusOK)
    /\ HasRecord(0)
    /\ "A" \in DOMAIN StoredResults(0)
    /\ StoredResults(0)["A"].Status = ResponseStatusInQuestion

(***************************************************************************)
(* Properties of the store's round interface.                              *)
(***************************************************************************)
\* C13: after saveRoundResults(r) succeeds, getRoundResults(r.Round)
\* returns a record equal to r, with nothing of the round's earlier record,
\* and the records under the other round keys are as before the call.
C13_SaveReplacesRound ==
    /\ (/\ last.op = "getRoundResults"
        /\ prev.op = "saveRoundResults" /\ prev.err = NoErr
        /\ last.round = prev.req.Round) =>
            /\ last.err = NoErr
            /\ last.val = prev.req
    /\ (last.op = "saveRoundResults" /\ last.err = NoErr) =>
            \A key \in (ResultKeys(last.pre) \cup ResultKeys(db))
                            \ {Itoa(last.req.Round)} :
                /\ key \in ResultKeys(last.pre) /\ key \in ResultKeys(db)
                /\ db[bucketGameResults][key] = last.pre[bucketGameResults][key]

\* a record of team A alone saved over a record of A and B, and read back,
\* while round 1 holds a record
C13_Witness ==
    /\ last.op = "getRoundResults" /\ last.round = 0 /\ last.err = NoErr
    /\ prev.op = "saveRoundResults" /\ prev.err = NoErr
    /\ prev.req.Round = 0
    /\ DOMAIN prev.req.Results = {"A"}
    /\ "0" \in ResultKeys(prev.pre)
    /\ DOMAIN prev.pre[bucketGameResults]["0"].Results = {"A", "B"}
    /\ DOMAIN last.val.Results = {"A"}
    /\ "1" \in ResultKeys(db)

(***************************************************************************)
(* The whole store interface: the registry calls with arbitrary requests,  *)
(* and the round calls with one record.                                    *)
(***************************************************************************)
SaveOneRound ==
    LET req == RoundResults(0, [t \in {"A"} |->
                                   RoundResponse("x", ResponseStatusNotChecked)])
        w == saveRoundResults(db, req)
    IN  /\ db' = w.db
        /\ saved' = IF w.err = NoErr THEN saved \cup {req.Round} ELSE saved
        /\ last' = [op |-> "saveRoundResults", req |-> req, err |-> w.err,
                    pre |-> db]
        /\ prev' = NoOp
        /\ UNCHANGED <<config, latest, procs>>

NextStore ==
    \/ SaveSpreadsheets
    \/ GetSpreadsheets
    \/ SaveOneRound
    \/ GetRoundResults

SpecStore == InitRegistry /\ [][NextStore]_vars

ManagerStored(store) ==
    /\ bucketGameConfiguration \in DOMAIN store
    /\ bucketGameConfiguration_managerSpreadsheet
          \in DOMAIN store[bucketGameConfiguration]

\* the store file without its teams bucket
WithoutTeamsBucket(store) ==
    [b \in DOMAIN store \ {bucketTeamsSpreadsheets} |-> store[b]]

\* C14: getSpreadsheets fails and returns no registry as long as no manager
\* entry has been written: on a store no update ran on (the configuration
\* bucket is missing) and on a store only saveRoundResults ran on (the
\* manager entry is missing); and on a store with the manager entry and
\* without the teams bucket it returns the manager and an empty team map.
C14_NoManagerNoRegistry ==
    /\ latest.isNil <=> ~ManagerStored(db)
    /\ (last.op = "getSpreadsheets" /\ latest.isNil) =>
          /\ last.val = NilRegistry
          /\ last.err = IF db = EmptyDB
                        THEN errorInexistantBucket(bucketGameConfiguration)
                        ELSE ErrUnexpectedEndOfJSON
    /\ ManagerStored(db) =>
          getSpreadsheets(WithoutTeamsBucket(db)) =
              [err |-> NoErr, val |-> Registry(latest.manager, NoTeams)]

\* getSpreadsheets on a store that holds a round and no registry
C14_Witness ==
    /\ last.op = "getSpreadsheets"
    /\ latest.isNil
    /\ saved = {0}
    /\ HasRecord(0)
    /\ last.err = ErrUnexpectedEndOfJSON
    /\ last.val = NilRegistry

WellKnownBuckets ==
    {bucketGameConfiguration, bucketTeamsSpreadsheets, bucketGameResults}

\* no bucket, or the three well-known ones; all three after an update that
\* succeeded
BucketsAllOrNone ==
    /\ DOMAIN db \in {{}, WellKnownBuckets}
    /\ (last.op \in {"saveSpreadsheets", "saveRoundResults"} /\ last.err = NoErr)
          => DOMAIN db = WellKnownBuckets

\* a read leaves the file as it is
ReadsChangeNothing ==
    last'.op \in {"getSpreadsheets", "getRoundResults"} => db' = db

\* C15: in every reachable store state there is no bucket or exactly the
\* three well-known buckets; every successful update leaves all three, and
\* getSpreadsheets and getRoundResults create, delete and change no bucket
\* and no key.
C15_BucketsAllOrNone == [](BucketsAllOrNone) /\ [][ReadsChangeNothing]_vars

\* the first update saves a round: the two registry buckets exist, empty
C15_Witness ==
    /\ last.op = "saveRoundResults" /\ last.err = NoErr
    /\ last.pre = EmptyDB
    /\ DOMAIN db = WellKnownBuckets
    /\ db[bucketGameConfiguration] = EmptyBucket
    /\ db[bucketTeamsSpreadsheets] = EmptyBucket
    /\ DOMAIN db[bucketGameResults] = {"0"}

(***************************************************************************)
(* Properties of the layout: edge cases, and the grid against the lookup.  *)
(***************************************************************************)
GroupBuilders ==
    {"createManagerAnswerGroups", "createLinkManagerTeamsGroups",
     "createTeamAnswerGroups"}

\* C16: without teams the manager and the link builder return no groups
\* and no error; without questions and without warm-up question every
\* builder returns no groups and no error; with no questions and a warm-up
\* question createGroups emits one group, of length 1 and index 0.
C16_EdgeCases ==
    last.op \in GroupBuilders =>
        /\ (Len(config.Teams) = 0 /\ last.op # "createTeamAnswerGroups") =>
              (last.groups = << >> /\ last.err = NoErr /\ ~last.called)
        /\ (config.NumberOfQuestions = 0 /\ ~config.HasWarmUpQuestion) =>
              (last.groups = << >> /\ last.err = NoErr)
        /\ (/\ config.NumberOfQuestions = 0 /\ config.HasWarmUpQuestion
            /\ last.called) =>
              /\ last.err = NoErr
              /\ Len(last.groups) = 1
              /\ last.groups[1].length = 1
              /\ last.groups[1].index = 0

\* the team sheet of a game that has a warm-up question only
C16_Witness ==
    /\ last.op = "createTeamAnswerGroups"
    /\ last.called
    /\ config.NumberOfQuestions = 0 /\ config.HasWarmUpQuestion
    /\ Len(last.groups) = 1
    /\ last.groups[1].Range = "A1:B2"
    /\ last.groups[1].labels = <<0>>

\* the groups createManagerAnswerGroups lays out on the manager sheet
ManagerGrid == createManagerAnswerGroups(config).groups

\* the cells under the j-th label of a manager group, as a grid range
\* (indices from 0, end excluded): the group's range starts with the header
\* row and the column of the team names
AnswerCells(g, j) ==
    [StartRowIndex |-> g.cells.startRow,
     EndRowIndex |-> g.cells.startRow + Len(config.Teams),
     StartColumnIndex |-> (g.cells.startColumn - 65) + j,
     EndColumnIndex |-> (g.cells.startColumn - 65) + j + 1]

\* C17: the range getRoundRange returns for a round it accepts is the
\* cells of the manager grid under the label of that round: the team rows
\* of the group whose header holds the label, in the label's column; also
\* for the rounds that are multiples of 12.
C17_RoundRangeMatchesGrid ==
    (last.op = "getRoundRange" /\ last.err = NoErr /\ Len(config.Teams) > 0) =>
        \E i \in 1..Len(ManagerGrid) :
            \E j \in 1..ManagerGrid[i].length :
                /\ ManagerGrid[i].labels[j] = last.round
                /\ last.gr = AnswerCells(ManagerGrid[i], j)

\* CmdGetTotal counts round n: a right answer of the first team stored
\* under n alone gives that team a total of 1
CountedInTotal(n) ==
    LET t == config.Teams[1]
        store == saveRoundResults(EmptyDB,
                     RoundResults(n, [u \in {t} |->
                                         RoundResponse("x", ResponseStatusOK)])).db
        r == CmdGetTotal(config, store, config.Teams)
    IN  r.err = NoErr /\ r.total[t] = 1

\* C18: every question number the layout writes as a header label of the
\* manager grid is a round getRoundRange accepts and, the warm-up question
\* apart, a round CmdGetTotal counts.
C18_LabelsReachable ==
    (last.op = "createManagerAnswerGroups" /\ last.called /\ last.err = NoErr) =>
        \A i \in 1..Len(last.groups) :
            \A j \in 1..last.groups[i].length :
                LET label == last.groups[i].labels[j]
                IN  /\ getRoundRange(config, label).err = NoErr
                    /\ label # 0 => CountedInTotal(label)

\* a check of round n fails and leaves the store as it is, or changes the
\* record under key n alone and leaves there a record with Round = n
CheckWritesItsRound ==
    last'.op = "check" =>
        IF last'.err # NoErr THEN db' = db
        ELSE /\ Itoa(last'.round) \in ResultKeys(db')
             /\ db'[bucketGameResults][Itoa(last'.round)].Round = last'.round
             /\ \A key \in (ResultKeys(db) \cup ResultKeys(db'))
                               \ {Itoa(last'.round)} :
                   /\ key \in ResultKeys(db) /\ key \in ResultKeys(db')
                   /\ db'[bucketGameResults][key] = db[bucketGameResults][key]

\* C19: in every reachable store state, a store no update ran on
\* included, a check of round n fails leaving the store unchanged or
\* writes only the record under key n, with Round = n; it never creates or
\* overwrites the record of another round.
C19_CheckWritesItsRound == [][CheckWritesItsRound]_vars

\* C20: for every question count Q >= 0 and warm-up flag,
\* getTeamAnswerGridRanges returns exactly one border range per group of
\* createTeamAnswerGroups, in the same order, starting at row 3 x the
\* group's index and as wide as the group is long: no range when there is
\* no group, no range more after a warm-up-only game.
C20_BorderPerGroup ==
    last.op = "getTeamAnswerGridRanges" =>
        LET groups == createTeamAnswerGroups(config).groups
        IN  /\ last.err = NoErr
            /\ Len(last.ranges) = Len(groups)
            /\ \A i \in 1..Len(groups) :
                   /\ last.ranges[i].StartRowIndex = 3 * groups[i].index
                   /\ last.ranges[i].StartRowIndex = groups[i].cells.startRow - 1
                   /\ last.ranges[i].EndColumnIndex
                        - last.ranges[i].StartColumnIndex = groups[i].length

\* C21: with two processes on one store file, a fetch of round n committed
\* between the read and the write of another process's check of round n is
\* not lost: once the check has finished, the record of round n holds the
\* responses of that fetch.
C21_FetchNotLost ==
    (last.op = "check" /\ last.err = NoErr /\ last.missed.found) =>
        /\ HasRecord(last.round)
        /\ \A t \in DOMAIN last.missed.val.Results :
              /\ t \in DOMAIN StoredResults(last.round)
              /\ StoredResults(last.round)[t].Response
                   = last.missed.val.Results[t].Response

====
